---- MODULE Spec2Model ----
(***************************************************************************)
(* Model of src/utils/geometry.ts: the furniture graph generators          *)
(* (generateFurniture and the generators it dispatches to), the shape      *)
(* classifier isInsideFurniture and the serpentine deformation             *)
(* serpentinize with the frame utilities it uses.                          *)
(*                                                                         *)
(* Numbers.  The code computes in IEEE doubles, in metres.  The model      *)
(* computes in integers: lengths are millimetres, box tests are done       *)
(* exactly on lengths scaled by K (every fraction the box classifiers use  *)
(* is a multiple of 1/K mm), radii are fixed-point tenths of a millimetre  *)
(* and angles/trigonometric values are fixed-point multiples of 1/FP.      *)
(* Node ids are 0-based as in the code; nodes[i+1] is the node with id i.  *)
(***************************************************************************)
EXTENDS Integers, Sequences, FiniteSets, TLC

VARIABLES
    pc,        \* "idle" | "called" | "returned" | "kept" | "classified" |
               \* "bending" | "bent"
    type,      \* archetype of the call in progress / last call
    params,    \* its FurnitureParams
    nodes,     \* the nodes array of the call
    edges,     \* the edges array of the call
    points,    \* generateVolumeVoronoi: accepted points {id, vec}
    attempts,  \* generateVolumeVoronoi: attempts counter
    ran,       \* generators that contributed to the graph of this call
    queries,   \* number of isInsideFurniture evaluations of this call
    nodeMap,   \* the grid-index map of the grid generator that ran
    saved,     \* an earlier call's input and result, kept for comparison
    probe,     \* the last direct call of isInsideFurniture and its answer
    serp       \* the last call of serpentinize: its arguments and its result

vars == <<pc, type, params, nodes, edges, points, attempts, ran, queries, nodeMap, saved,
          probe, serp>>

----------------------------------------------------------------------------
(* Arithmetic helpers *)

Abs(a) == IF a < 0 THEN -a ELSE a
Max(a, b) == IF a >= b THEN a ELSE b
Min(a, b) == IF a <= b THEN a ELSE b
\* Op applied to the value of v, which is computed once, before Op's body:
\* a statement's effect is computed before the next statement starts
With(v, Op(_)) == CHOOSE r \in {Op(x) : x \in {v}} : TRUE
\* Math.ceil(a / b) for a >= 0, b > 0
CeilDiv(a, b) == (a + b - 1) \div b

\* fixed-point scale of angles and of sin/cos values
FP == 10 * 1000
\* Math.PI in units of 1/FP
PiFP == 31416
TwoPiFP == 2 * PiFP
HalfPiFP == PiFP \div 2

\* sin on [0, pi/2], Taylor series to x^9, fixed point
SinQ(x) ==
    LET x2 == (x * x) \div FP
        t3 == ((x * x2) \div FP) \div 6
        t5 == ((t3 * x2) \div FP) \div 20
        t7 == ((t5 * x2) \div FP) \div 42
        t9 == ((t7 * x2) \div FP) \div 72
    IN  x - t3 + t5 - t7 + t9

\* Math.sin(a), a and the result in units of 1/FP
Sin(a) ==
    LET r == a % TwoPiFP
    IN  IF r <= HalfPiFP THEN SinQ(r)
        ELSE IF r <= PiFP THEN SinQ(PiFP - r)
        ELSE IF r <= PiFP + HalfPiFP THEN -SinQ(r - PiFP)
        ELSE -SinQ(TwoPiFP - r)

\* Math.cos(a)
Cos(a) == Sin(a + HalfPiFP)

----------------------------------------------------------------------------
(* Types *)

FurnitureTypes ==
    {"Chair", "Table", "Stool", "Bench", "Shelf", "Vase", "Recliner", "Lamp", "Mobius"}
FurniturePatterns == {"Linear", "Voronoi", "Gyroid", "Triangular"}

\* const addNode = (nodes, x, y, z) => nodes.push(new Vector3(x, y, z)) - 1
addNode(ns, x, y, z) == Append(ns, <<x, y, z>>)
\* an id that is the array's new length, not its last index
lengthAsId(ns) == Len(ns) + 1
\* the id addNode returns when it pushes onto ns
newId(ns) == Len(ns)
\* const link = (edges, a, b) => edges.push([a, b])
link(es, a, b) == Append(es, <<a, b>>)

----------------------------------------------------------------------------
(* Shape classifier *)

\* scale that makes every box fraction of the classifier an integer
K == 8 * 25

\* a box test with strict comparisons
inBoxStrict(X, Y, Z, bx, by, bz, bw, bh, bd) ==
    /\ 2 * Abs(X - bx) < bw
    /\ Y > by
    /\ Y < by + bh
    /\ 2 * Abs(Z - bz) < bd

\* inBox of isInsideFurniture; all arguments scaled by K.
\* Math.abs(x - bx) <= bw/2 is compared doubled, so that it stays exact.
inBox(X, Y, Z, bx, by, bz, bw, bh, bd) ==
    /\ 2 * Abs(X - bx) <= bw
    /\ Y >= by
    /\ Y <= by + bh
    /\ 2 * Abs(Z - bz) <= bd

\* a table whose legs are as thick as the chair's
insideTableThinLegs(X, Y, Z, W, H, D) ==
    LET w2 == W \div 2
        d2 == D \div 2
        legThick == (W * 12) \div 100
        topThick == (H * 10) \div 100
        lt2 == legThick \div 2
    IN  \/ inBox(X, Y, Z, 0, H - topThick, 0, W, topThick, D)
        \/ inBox(X, Y, Z, -w2 + lt2, 0, d2 - lt2, legThick, H, legThick)
        \/ inBox(X, Y, Z, w2 - lt2, 0, d2 - lt2, legThick, H, legThick)
        \/ inBox(X, Y, Z, -w2 + lt2, 0, -d2 + lt2, legThick, H, legThick)
        \/ inBox(X, Y, Z, w2 - lt2, 0, -d2 + lt2, legThick, H, legThick)

insideTable(X, Y, Z, W, H, D) ==
    LET w2 == W \div 2
        d2 == D \div 2
        legThick == (W * 15) \div 100
        topThick == (H * 10) \div 100
        lt2 == legThick \div 2
        inTop == inBox(X, Y, Z, 0, H - topThick, 0, W, topThick, D)
        inLegFL == inBox(X, Y, Z, -w2 + lt2, 0, d2 - lt2, legThick, H, legThick)
        inLegFR == inBox(X, Y, Z, w2 - lt2, 0, d2 - lt2, legThick, H, legThick)
        inLegBL == inBox(X, Y, Z, -w2 + lt2, 0, -d2 + lt2, legThick, H, legThick)
        inLegBR == inBox(X, Y, Z, w2 - lt2, 0, -d2 + lt2, legThick, H, legThick)
    IN  inTop \/ inLegFL \/ inLegFR \/ inLegBL \/ inLegBR

insideChair(X, Y, Z, W, H, D, S) ==
    LET w2 == W \div 2
        d2 == D \div 2
        legThick == (W * 12) \div 100
        seatThick == (H * 8) \div 100
        backThick == (D * 15) \div 100
        lt2 == legThick \div 2
        inLegFL == inBox(X, Y, Z, -w2 + lt2, 0, d2 - lt2, legThick, S, legThick)
        inLegFR == inBox(X, Y, Z, w2 - lt2, 0, d2 - lt2, legThick, S, legThick)
        inLegBL == inBox(X, Y, Z, -w2 + lt2, 0, -d2 + lt2, legThick, S, legThick)
        inLegBR == inBox(X, Y, Z, w2 - lt2, 0, -d2 + lt2, legThick, S, legThick)
        inSeat == inBox(X, Y, Z, 0, S, 0, W, seatThick, D)
        inBack == inBox(X, Y, Z, 0, S, -d2 + backThick \div 2, W, H - S, backThick)
    IN  inLegFL \/ inLegFR \/ inLegBL \/ inLegBR \/ inSeat \/ inBack

\* x, y, z, width, height in mm; radii in tenths of a mm
insideStool(x, y, z, width, height) ==
    LET rTop == (width * 10) \div 2
        rBot == (width * 20) \div 3
        \* MathUtils.lerp(rBot, rTop, y / height) = (1 - t) * rBot + t * rTop
        rAtY == ((height - y) * rBot + y * rTop) \div height
    IN  /\ 100 * (x * x + z * z) <= rAtY * rAtY
        /\ y >= 0
        /\ y <= height

insideBench(X, Y, Z, W, H, D) ==
    LET w2 == W \div 2
        topThick == (H * 15) \div 100
        legThick == (W * 10) \div 100
        lt2 == legThick \div 2
        inTop == inBox(X, Y, Z, 0, H - topThick, 0, W, topThick, D)
        inLegL == inBox(X, Y, Z, -w2 + lt2, 0, 0, legThick, H, D)
        inLegR == inBox(X, Y, Z, w2 - lt2, 0, 0, legThick, H, D)
    IN  inTop \/ inLegL \/ inLegR

\* radii in tenths of a mm; the code's 0.3 and 0.1 are metres
insideVase(x, y, z, width, height) ==
    LET baseRadius == width * 4
        \* t * Math.PI with t = y / height
        tPi == (y * PiFP) \div height
        bulge == (Sin(tPi) * 3000) \div FP
        rad == baseRadius + bulge + (y * 1000) \div height
    IN  /\ 100 * (x * x + z * z) <= rad * rad
        /\ y >= 0
        /\ y <= height

\* isInsideFurniture(type, x, y, z, params); x, y, z in mm
isInsideFurniture(t, x, y, z, p) ==
    LET X == K * x
        Y == K * y
        Z == K * z
        W == K * p.width
        H == K * p.height
        D == K * p.depth
        S == K * p.seatHeight
    IN  IF t = "Table" THEN insideTable(X, Y, Z, W, H, D)
        ELSE IF t = "Chair" THEN insideChair(X, Y, Z, W, H, D, S)
        ELSE IF t = "Stool" THEN insideStool(x, y, z, p.width, p.height)
        ELSE IF t = "Bench" THEN insideBench(X, Y, Z, W, H, D)
        ELSE IF t = "Vase" THEN insideVase(x, y, z, p.width, p.height)
        ELSE inBox(X, Y, Z, 0, 0, 0, W, H, D)

----------------------------------------------------------------------------
(* Grid-index map: a JS Map<number, number>, which iterates in the order   *)
(* in which its keys were first inserted.                                  *)

emptyMap == [order |-> <<>>, val |-> <<>>]
\* nodeMap.has(k)
mapHas(m, k) == k \in DOMAIN m.val
\* nodeMap.set(k, v): a key already present keeps its place and takes v
mapSet(m, k, v) ==
    IF mapHas(m, k)
    THEN [m EXCEPT !.val = [m.val EXCEPT ![k] = v]]
    ELSE [order |-> Append(m.order, k), val |-> (k :> v) @@ m.val]

\* const idx = (x, y, z) => x + y * nx + z * nx * ny
idx(c, x, y, z) == x + y * c.nx + z * c.nx * c.ny

\* the grid coordinates the connect passes recompute from a grid id
decode(c, gridId) ==
    LET z == gridId \div (c.nx * c.ny)
        y == (gridId - z * c.nx * c.ny) \div c.nx
        x == gridId % c.nx
    IN  <<x, y, z>>

\* the edges one map entry contributes: for each neighbour id, in order,
\* link(edges, realIdx, nodeMap.get(nid)) if nodeMap.has(nid)
linksOf(m, realIdx, nids) ==
    LET present == SelectSeq(nids, LAMBDA nid : mapHas(m, nid))
    IN  [n \in 1..Len(present) |-> <<realIdx, m.val[present[n]]>>]

----------------------------------------------------------------------------
(* generateVolumeGyroid *)

GyroidRes == 80
GyroidScale == 8

gyroidContext(t, p) ==
    [type |-> t, params |-> p,
     nx |-> CeilDiv(p.width, GyroidRes) + 2,
     ny |-> CeilDiv(p.height, GyroidRes) + 2,
     nz |-> CeilDiv(p.depth, GyroidRes) + 2,
     offsetX |-> -(p.width \div 2) - GyroidRes,
     offsetY |-> -GyroidRes,
     offsetZ |-> -(p.depth \div 2) - GyroidRes]

\* Math.abs(val) < 0.5 for the gyroid value at world point (wx, wy, wz) mm
gyroidShell(wx, wy, wz) ==
    LET gx == (wx * GyroidScale * FP) \div 1000
        gy == (wy * GyroidScale * FP) \div 1000
        gz == (wz * GyroidScale * FP) \div 1000
        val == (Sin(gx) * Cos(gy)) \div FP + (Sin(gy) * Cos(gz)) \div FP
               + (Sin(gz) * Cos(gx)) \div FP
    IN  2 * Abs(val) < FP

\* body of the innermost loop; st = [nodes, map, queries], queries counting the
\* calls of isInsideFurniture
gyroidVisit(st, c, x, y, z) ==
    LET wx == c.offsetX + x * GyroidRes
        wy == c.offsetY + y * GyroidRes
        wz == c.offsetZ + z * GyroidRes
        q == [st EXCEPT !.queries = @ + 1]
    IN  IF ~isInsideFurniture(c.type, wx, wy, wz, c.params) THEN q
        ELSE IF gyroidShell(wx, wy, wz)
        THEN [q EXCEPT !.nodes = addNode(st.nodes, wx, wy, wz),
                       !.map = mapSet(st.map, idx(c, x, y, z), newId(st.nodes))]
        ELSE q

RECURSIVE gyroidLoopZ(_, _, _, _, _)
gyroidLoopZ(st, c, x, y, z) ==
    IF z < c.nz
    THEN With(gyroidVisit(st, c, x, y, z), LAMBDA next : gyroidLoopZ(next, c, x, y, z + 1))
    ELSE st

RECURSIVE gyroidLoopY(_, _, _, _)
gyroidLoopY(st, c, x, y) ==
    IF y < c.ny
    THEN With(gyroidLoopZ(st, c, x, y, 0), LAMBDA next : gyroidLoopY(next, c, x, y + 1))
    ELSE st

RECURSIVE gyroidLoopX(_, _, _)
gyroidLoopX(st, c, x) ==
    IF x < c.nx
    THEN With(gyroidLoopY(st, c, x, 0), LAMBDA next : gyroidLoopX(next, c, x + 1))
    ELSE st

\* the +x, +y, +z neighbours of the connect pass
gyroidNeighbors(c, gridId) ==
    LET g == decode(c, gridId)
    IN  << idx(c, g[1] + 1, g[2], g[3]),
           idx(c, g[1], g[2] + 1, g[3]),
           idx(c, g[1], g[2], g[3] + 1) >>

\* nodeMap.forEach over entries lo..hi, in insertion order
RECURSIVE gyroidConnect(_, _, _, _)
gyroidConnect(m, c, lo, hi) ==
    IF lo > hi THEN <<>>
    ELSE IF lo = hi
    THEN linksOf(m, m.val[m.order[lo]], gyroidNeighbors(c, m.order[lo]))
    ELSE LET mid == (lo + hi) \div 2
         IN  gyroidConnect(m, c, lo, mid) \o gyroidConnect(m, c, mid + 1, hi)

generateVolumeGyroid(ns, es, p, t) ==
    With(gyroidContext(t, p), LAMBDA c :
    With(gyroidLoopX([nodes |-> ns, map |-> emptyMap, queries |-> 0], c, 0), LAMBDA st :
        [nodes |-> st.nodes,
         edges |-> es \o gyroidConnect(st.map, c, 1, Len(st.map.order)),
         map |-> st.map,
         queries |-> st.queries]))

----------------------------------------------------------------------------
(* generateVolumeTriangular *)

cellSize == 150

triContext(t, p) ==
    [type |-> t, params |-> p,
     nx |-> CeilDiv(p.width, cellSize),
     ny |-> CeilDiv(p.height, cellSize),
     nz |-> CeilDiv(p.depth, cellSize),
     offsetX |-> -(p.width \div 2),
     offsetY |-> 0,
     offsetZ |-> -(p.depth \div 2)]

triVisit(st, c, x, y, z) ==
    LET wx == c.offsetX + x * cellSize
        wy == c.offsetY + y * cellSize
        wz == c.offsetZ + z * cellSize
        q == [st EXCEPT !.queries = @ + 1]
    IN  IF isInsideFurniture(c.type, wx, wy, wz, c.params)
        THEN [q EXCEPT !.nodes = addNode(st.nodes, wx, wy, wz),
                       !.map = mapSet(st.map, idx(c, x, y, z), newId(st.nodes))]
        ELSE q

RECURSIVE triLoopZ(_, _, _, _, _)
triLoopZ(st, c, x, y, z) ==
    IF z <= c.nz
    THEN With(triVisit(st, c, x, y, z), LAMBDA next : triLoopZ(next, c, x, y, z + 1))
    ELSE st

RECURSIVE triLoopY(_, _, _, _)
triLoopY(st, c, x, y) ==
    IF y <= c.ny
    THEN With(triLoopZ(st, c, x, y, 0), LAMBDA next : triLoopY(next, c, x, y + 1))
    ELSE st

RECURSIVE triLoopX(_, _, _)
triLoopX(st, c, x) ==
    IF x <= c.nx
    THEN With(triLoopY(st, c, x, 0), LAMBDA next : triLoopX(next, c, x + 1))
    ELSE st

neighborOffsetsWithSelf ==
    << <<0, 0, 0>>, <<0, 1, 0>>, <<0, 0, 1>>,
       <<1, 1, 0>>, <<1, 0, 1>>, <<0, 1, 1>>,
       <<1, 1, 1>> >>

neighborOffsets ==
    << <<1, 0, 0>>, <<0, 1, 0>>, <<0, 0, 1>>,
       <<1, 1, 0>>, <<1, 0, 1>>, <<0, 1, 1>>,
       <<1, 1, 1>> >>

triNeighbors(c, gridId) ==
    LET g == decode(c, gridId)
    IN  [n \in 1..Len(neighborOffsets) |->
            idx(c, g[1] + neighborOffsets[n][1], g[2] + neighborOffsets[n][2],
                g[3] + neighborOffsets[n][3])]

RECURSIVE triConnect(_, _, _, _)
triConnect(m, c, lo, hi) ==
    IF lo > hi THEN <<>>
    ELSE IF lo = hi
    THEN linksOf(m, m.val[m.order[lo]], triNeighbors(c, m.order[lo]))
    ELSE LET mid == (lo + hi) \div 2
         IN  triConnect(m, c, lo, mid) \o triConnect(m, c, mid + 1, hi)

generateVolumeTriangular(ns, es, p, t) ==
    With(triContext(t, p), LAMBDA c :
    With(triLoopX([nodes |-> ns, map |-> emptyMap, queries |-> 0], c, 0), LAMBDA st :
        [nodes |-> st.nodes,
         edges |-> es \o triConnect(st.map, c, 1, Len(st.map.order)),
         map |-> st.map,
         queries |-> st.queries]))

----------------------------------------------------------------------------
(* Linear (skeleton) generators.  Each takes the nodes and edges arrays    *)
(* and returns them extended; g = [nodes, edges].                          *)

\* the concatenation of a sequence of sequences
RECURSIVE flatRange(_, _, _)
flatRange(ss, lo, hi) ==
    IF lo > hi THEN <<>>
    ELSE IF lo = hi THEN ss[lo]
    ELSE LET mid == (lo + hi) \div 2
         IN  flatRange(ss, lo, mid) \o flatRange(ss, mid + 1, hi)

flat(ss) == flatRange(ss, 1, Len(ss))

\* the array es with the pairs of seq appended by link, in order
linkAll(es, seq) == es \o seq

\* stretchers all around: the two of the code, a front and a back one
chairStretcherRing(fl_str, fr_str, bl_str, br_str) ==
    << <<fl_str, bl_str>>, <<fr_str, br_str>>, <<fl_str, fr_str>>, <<bl_str, br_str>> >>

\* link(edges, fl_str, bl_str); link(edges, fr_str, br_str)
chairStretchers(fl_str, fr_str, bl_str, br_str) ==
    << <<fl_str, bl_str>>, <<fr_str, br_str>> >>

generateLinearChair(ns, es, p) ==
    LET w2 == p.width \div 2
        d2 == p.depth \div 2
        seatHeight == p.seatHeight
        height == p.height
        b == newId(ns)
        fl_b == b
        fr_b == b + 1
        bl_b == b + 2
        br_b == b + 3
        fl_s == b + 4
        fr_s == b + 5
        bl_s == b + 6
        br_s == b + 7
        bl_t == b + 8
        br_t == b + 9
        stretch_h == (seatHeight * 3) \div 10
        fl_str == b + 10
        fr_str == b + 11
        bl_str == b + 12
        br_str == b + 13
    IN  [nodes |-> ns \o
            << <<-w2, 0, d2>>, <<w2, 0, d2>>, <<-w2, 0, -d2>>, <<w2, 0, -d2>>,
               <<-w2, seatHeight, d2>>, <<w2, seatHeight, d2>>,
               <<-w2, seatHeight, -d2>>, <<w2, seatHeight, -d2>>,
               <<-w2, height, -d2>>, <<w2, height, -d2>>,
               <<-w2, stretch_h, d2>>, <<w2, stretch_h, d2>>,
               <<-w2, stretch_h, -d2>>, <<w2, stretch_h, -d2>> >>,
         edges |-> linkAll(es,
            << <<fl_b, fl_s>>, <<fr_b, fr_s>>,
               <<bl_b, bl_s>>, <<br_b, br_s>>,
               <<fl_s, fr_s>>, <<fr_s, br_s>>,
               <<br_s, bl_s>>, <<bl_s, fl_s>>,
               <<fl_s, br_s>>, <<fr_s, bl_s>>,
               <<bl_s, bl_t>>, <<br_s, br_t>>,
               <<bl_t, br_t>>,
               <<bl_t, br_s>>, <<br_t, bl_s>> >>
            \o chairStretchers(fl_str, fr_str, bl_str, br_str))]

\* a top quad with its two diagonals
tableTopCrossed(fl_t, fr_t, bl_t, br_t) ==
    << <<fl_t, fr_t>>, <<fr_t, br_t>>, <<br_t, bl_t>>, <<bl_t, fl_t>>,
       <<fl_t, br_t>>, <<fr_t, bl_t>> >>

\* link(edges, fl_t, fr_t); link(edges, fr_t, br_t);
\* link(edges, br_t, bl_t); link(edges, bl_t, fl_t)
tableTop(fl_t, fr_t, bl_t, br_t) ==
    << <<fl_t, fr_t>>, <<fr_t, br_t>>, <<br_t, bl_t>>, <<bl_t, fl_t>> >>

generateLinearTable(ns, es, p) ==
    LET w2 == p.width \div 2
        d2 == p.depth \div 2
        height == p.height
        b == newId(ns)
        fl_b == b
        fr_b == b + 1
        bl_b == b + 2
        br_b == b + 3
        fl_t == b + 4
        fr_t == b + 5
        bl_t == b + 6
        br_t == b + 7
        tm_f == b + 8
        tm_b == b + 9
        tm_l == b + 10
        tm_r == b + 11
        center == b + 12
    IN  [nodes |-> ns \o
            << <<-w2, 0, d2>>, <<w2, 0, d2>>, <<-w2, 0, -d2>>, <<w2, 0, -d2>>,
               <<-w2, height, d2>>, <<w2, height, d2>>,
               <<-w2, height, -d2>>, <<w2, height, -d2>>,
               <<0, height, d2>>, <<0, height, -d2>>,
               <<-w2, height, 0>>, <<w2, height, 0>>,
               <<0, height, 0>> >>,
         edges |-> linkAll(es,
            << <<fl_b, fl_t>>, <<fr_b, fr_t>>,
               <<bl_b, bl_t>>, <<br_b, br_t>> >>
            \o tableTop(fl_t, fr_t, bl_t, br_t) \o
            << <<fl_t, tm_f>>, <<tm_f, fr_t>>,
               <<bl_t, tm_b>>, <<tm_b, br_t>>,
               <<fl_t, tm_l>>, <<tm_l, bl_t>>,
               <<fr_t, tm_r>>, <<tm_r, br_t>>,
               <<tm_l, center>>, <<center, tm_r>>,
               <<tm_f, center>>, <<center, tm_b>> >>)]

\* value * Math.cos(angle), value * Math.sin(angle); angle in 1/FP rad
timesCos(v, angle) == (Cos(angle) * v) \div FP
timesSin(v, angle) == (Sin(angle) * v) \div FP

stoolSteps == 4

\* first loop of generateLinearStool: one bottom and one top node per step
RECURSIVE stoolRings(_, _, _)
stoolRings(ns, p, i) ==
    IF i < stoolSteps
    THEN LET radiusTop == p.width \div 2
             radiusBot == (p.width * 2) \div 3
             theta == (i * TwoPiFP) \div stoolSteps + PiFP \div 4
             n1 == addNode(ns, timesCos(radiusBot, theta), 0, timesSin(radiusBot, theta))
             n2 == addNode(n1, timesCos(radiusTop, theta), p.height,
                           timesSin(radiusTop, theta))
         IN  With(n2, LAMBDA next : stoolRings(next, p, i + 1))
    ELSE ns

\* second loop: the links of step i and its two rest nodes
RECURSIVE stoolLinks(_, _, _, _)
stoolLinks(g, p, b, i) ==
    IF i < stoolSteps
    THEN LET radiusTop == p.width \div 2
             radiusBot == (p.width * 2) \div 3
             nextI == (i + 1) % stoolSteps
             \* botIndices[k] = b + 2k, topIndices[k] = b + 2k + 1
             bot_i == b + 2 * i
             top_i == b + 2 * i + 1
             top_next == b + 2 * nextI + 1
             restH == (p.height * 3) \div 10
             rRest == (7 * radiusBot + 3 * radiusTop) \div 10
             aA == (i * TwoPiFP) \div stoolSteps + PiFP \div 4
             aB == ((i + 1) * TwoPiFP) \div stoolSteps + PiFP \div 4
             restA == newId(g.nodes)
             n1 == addNode(g.nodes, timesCos(rRest, aA), restH, timesSin(rRest, aA))
             restB == newId(n1)
             n2 == addNode(n1, timesCos(rRest, aB), restH, timesSin(rRest, aB))
             e == linkAll(g.edges,
                    << <<bot_i, top_i>>, <<top_i, top_next>>, <<bot_i, top_next>>,
                       <<restA, restB>> >>)
         IN  With([nodes |-> n2, edges |-> e], LAMBDA next : stoolLinks(next, p, b, i + 1))
    ELSE g

\* a stool without the second loop
generateLinearStoolRings(ns, es, p) == [nodes |-> stoolRings(ns, p, 0), edges |-> es]

generateLinearStool(ns, es, p) ==
    With([nodes |-> stoolRings(ns, p, 0), edges |-> es], LAMBDA g :
        stoolLinks(g, p, newId(ns), 0))

benchLegs == 3

\* ids counted back from the array's last index, not from its length
benchPrevTopsFromLast(len) == <<len - 5, len - 4>>
\* const prev_f_t = nodes.length - 6; const prev_b_t = nodes.length - 5
benchPrevTops(len) == <<len - 6, len - 5>>

RECURSIVE benchFrames(_, _, _)
benchFrames(g, p, i) ==
    IF i < benchLegs
    THEN LET w2 == p.width \div 2
             d2 == p.depth \div 2
             dx == p.width \div (benchLegs - 1)
             x == -w2 + i * dx
             f_b == newId(g.nodes)
             b_b == f_b + 1
             f_t == f_b + 2
             b_t == f_b + 3
             n == g.nodes \o << <<x, 0, d2>>, <<x, 0, -d2>>,
                                <<x, p.height, d2>>, <<x, p.height, -d2>> >>
             e1 == linkAll(g.edges, << <<f_b, f_t>>, <<b_b, b_t>>, <<f_t, b_t>> >>)
             prev_f_t == benchPrevTops(Len(n))[1]
             prev_b_t == benchPrevTops(Len(n))[2]
             e2 == IF i > 0
                   THEN linkAll(e1, << <<prev_f_t, f_t>>, <<prev_b_t, b_t>>,
                                       <<prev_f_t, b_t>>, <<prev_b_t, f_t>> >>)
                   ELSE e1
         IN  With([nodes |-> n, edges |-> e2], LAMBDA next : benchFrames(next, p, i + 1))
    ELSE g

generateLinearBench(ns, es, p) == benchFrames([nodes |-> ns, edges |-> es], p, 0)

shelfLevels == 4

RECURSIVE shelfLoop(_, _, _)
shelfLoop(g, p, i) ==
    IF i < shelfLevels
    THEN LET w2 == p.width \div 2
             d2 == p.depth \div 2
             \* y = i * dy with dy = height / (levels - 1)
             y == (i * p.height) \div (shelfLevels - 1)
             fl == newId(g.nodes)
             fr == fl + 1
             bl == fl + 2
             br == fl + 3
             n == g.nodes \o << <<-w2, y, d2>>, <<w2, y, d2>>,
                                <<-w2, y, -d2>>, <<w2, y, -d2>> >>
             e1 == linkAll(g.edges, << <<fl, fr>>, <<fr, br>>, <<br, bl>>, <<bl, fl>>,
                                       <<fl, br>>, <<fr, bl>> >>)
             prev_fl == Len(n) - 8
             prev_fr == Len(n) - 7
             prev_bl == Len(n) - 6
             prev_br == Len(n) - 5
             e2 == IF i > 0
                   THEN linkAll(e1, << <<prev_fl, fl>>, <<prev_fr, fr>>,
                                       <<prev_bl, bl>>, <<prev_br, br>> >>)
                   ELSE e1
         IN  With([nodes |-> n, edges |-> e2], LAMBDA next : shelfLoop(next, p, i + 1))
    ELSE g

generateLinearShelf(ns, es, p) == shelfLoop([nodes |-> ns, edges |-> es], p, 0)

vaseRings == 8
vaseSegments == 6

\* the ring edges of ring r: cur and prev are the first ids of the rings
vaseRingLinks(cur, prev, r) ==
    LET one(s) ==
            LET nextS == (s + 1) % vaseSegments
            IN  IF r > 0
                THEN << <<cur + s, cur + nextS>>, <<prev + s, cur + s>>,
                        <<prev + s, cur + nextS>> >>
                ELSE << <<cur + s, cur + nextS>> >>
    IN  flat([k \in 1..vaseSegments |-> one(k - 1)])

RECURSIVE vaseLoop(_, _, _, _)
vaseLoop(g, p, prev, r) ==
    IF r < vaseRings
    THEN LET y == (r * p.height) \div (vaseRings - 1)
             baseRadius == (p.width * 4) \div 10
             bulge == (Sin((r * PiFP) \div (vaseRings - 1)) * 300) \div FP
             rad == baseRadius + bulge + (r * 100) \div vaseRings
             twist == r * 2000
             cur == newId(g.nodes)
             n == g.nodes \o
                  [s \in 1..vaseSegments |->
                      LET theta == ((s - 1) * TwoPiFP) \div vaseSegments
                      IN  <<timesCos(rad, theta + twist), y, timesSin(rad, theta + twist)>>]
             e == linkAll(g.edges, vaseRingLinks(cur, prev, r))
         IN  With([nodes |-> n, edges |-> e], LAMBDA next : vaseLoop(next, p, cur, r + 1))
    ELSE g

generateLinearVase(ns, es, p) == vaseLoop([nodes |-> ns, edges |-> es], p, 0, 0)

lampLayers == 16
lampPointsPerLayer == 9

lampLayerLinks(cur, prev, i) ==
    LET one(j) ==
            LET curr == cur + j
                nextJ == (j + 1) % lampPointsPerLayer
            IN  IF i > 0
                THEN << <<curr, prev + j>>, <<curr, prev + nextJ>>, <<curr, cur + nextJ>> >>
                ELSE << <<curr, cur + nextJ>> >>
    IN  flat([k \in 1..lampPointsPerLayer |-> one(k - 1)])

\* a loop of exactly lampLayers iterations
lampLoopGuardExclusive(i) == i < lampLayers
\* for (let i = 0; i <= layers; i++)
lampLoopGuard(i) == i <= lampLayers

RECURSIVE lampLoop(_, _, _, _)
lampLoop(g, p, prev, i) ==
    IF lampLoopGuard(i)
    THEN LET y == (i * p.height) \div lampLayers
             radBase == (p.width * 40) \div 100
             radTop == (p.width * 25) \div 100
             \* profile = 1 - Math.sin(t * Math.PI) * waist, in 1/FP
             profile == FP - Sin((i * PiFP) \div lampLayers) \div 2
             lerped == ((lampLayers - i) * radBase + i * radTop) \div lampLayers
             currentRad == (lerped * profile) \div FP
             twist == (i * 4 * PiFP) \div lampLayers
             cur == newId(g.nodes)
             n == g.nodes \o
                  [k \in 1..lampPointsPerLayer |->
                      LET angle == ((k - 1) * TwoPiFP) \div lampPointsPerLayer
                          noiseX == timesSin(p.width, angle * 3 + (i * 10 * FP) \div lampLayers)
                                    \div 10
                          noiseZ == timesCos(p.width, angle * 5 - (i * 8 * FP) \div lampLayers)
                                    \div 10
                      IN  <<timesCos(currentRad, angle + twist) + noiseX, y,
                            timesSin(currentRad, angle + twist) + noiseZ>>]
             e == linkAll(g.edges, lampLayerLinks(cur, prev, i))
         IN  With([nodes |-> n, edges |-> e], LAMBDA next : lampLoop(next, p, cur, i + 1))
    ELSE g

generateLinearLamp(ns, es, p) == lampLoop([nodes |-> ns, edges |-> es], p, 0, 0)

mobiusSegmentsT == 64
mobiusSegmentsS == 4

\* grid[i][j] is b + i * (segmentsS + 1) + j: rows are pushed in order
mobiusGrid(b, i, j) == b + i * (mobiusSegmentsS + 1) + j

mobiusNode(p, i, j) ==
    LET R == (p.width * 8) \div 10
        stripWidth == (p.depth * 4) \div 10
        t == (i * TwoPiFP) \div mobiusSegmentsT
        \* s = (j / segmentsS - 0.5) * stripWidth
        s == ((2 * j - mobiusSegmentsS) * stripWidth) \div (2 * mobiusSegmentsS)
        rr == R + timesCos(s, t \div 2)
        mx == timesCos(rr, t)
        my == timesSin(rr, t)
        mz == timesSin(s, t \div 2)
    IN  <<mx, mz + p.height \div 2, (my * 6) \div 10>>

\* a seam that keeps the cross-section index
mobiusNextJStraight(j) == j
\* const nextJ = segmentsS - j
mobiusNextJ(j) == mobiusSegmentsS - j

mobiusLinks(b, i) ==
    LET nextI == (i + 1) % mobiusSegmentsT
        one(j) ==
            LET curr == mobiusGrid(b, i, j)
                along == IF nextI = 0
                         THEN <<curr, mobiusGrid(b, 0, mobiusNextJ(j))>>
                         ELSE <<curr, mobiusGrid(b, nextI, j)>>
                across == IF j < mobiusSegmentsS
                          THEN << <<curr, mobiusGrid(b, i, j + 1)>> >> \o
                               (IF nextI # 0
                                THEN << <<curr, mobiusGrid(b, nextI, j + 1)>> >>
                                ELSE <<>>)
                          ELSE <<>>
            IN  <<along>> \o across
    IN  flat([k \in 1..(mobiusSegmentsS + 1) |-> one(k - 1)])

\* nodes.forEach((n) => { if (n.y < 0) n.y = 0; })
clampY(ns) == [k \in 1..Len(ns) |-> IF ns[k][2] < 0 THEN <<ns[k][1], 0, ns[k][3]>> ELSE ns[k]]

generateLinearMobius(ns, es, p) ==
    LET b == newId(ns)
        n == ns \o [k \in 1..(mobiusSegmentsT * (mobiusSegmentsS + 1)) |->
                       mobiusNode(p, (k - 1) \div (mobiusSegmentsS + 1),
                                  (k - 1) % (mobiusSegmentsS + 1))]
        e == linkAll(es, flat([k \in 1..mobiusSegmentsT |-> mobiusLinks(b, k - 1)]))
    IN  With(n, LAMBDA pushed : [nodes |-> clampY(pushed), edges |-> e])

----------------------------------------------------------------------------
(* Math.random() *)

\* resolution of a draw: a draw r stands for the number r / RandRes of [0, 1)
RandRes == 10 * 100

\* The n-th draw (n = 0, 1, ...) of the stream chosen by seed.  The code's
\* generator is unseeded; a call's draws are one of its streams.
random(seed, n) == (seed * 389 + n * 617 + (n * n) * 31 + (n \div 7) * 173) % RandRes

----------------------------------------------------------------------------
(* generateVoronoiReclinerOriginal *)

reclinerDensityU == 30
reclinerDensityV == 12

\* cubicBezierPoint(p0, p1, p2, p3, t).y for t = i / densityU
reclinerSpineY(p, i) ==
    LET it == reclinerDensityU - i
        p0y == (p.height * 9) \div 10
        p1y == (p.height * 2) \div 10
        p2y == (p.height * 6) \div 10
        p3y == (p.height * 3) \div 10
    IN  (p0y * it * it * it + 3 * p1y * it * it * i + 3 * p2y * it * i * i + p3y * i * i * i)
        \div (reclinerDensityU * reclinerDensityU * reclinerDensityU)

\* (Math.random() - 0.5) * (extent / density) * 0.8
reclinerJitter(r, extent, density) ==
    ((2 * r - RandRes) * extent * 8) \div (2 * RandRes * density * 10)

\* draws are taken in the order of the loops: row i draws jitterZ, then one
\* jitterX per column
reclinerPoint(p, seed, i, j) ==
    LET perRow == reclinerDensityV + 2
        spineY == reclinerSpineY(p, i)
        spineZ == -(p.depth \div 2) + (p.depth * i) \div reclinerDensityU
        jitterZ == reclinerJitter(random(seed, i * perRow), p.depth, reclinerDensityU)
        \* x = (u - 0.5) * width with u = j / densityV
        x == ((2 * j - reclinerDensityV) * p.width) \div (2 * reclinerDensityV)
        jitterX == reclinerJitter(random(seed, i * perRow + 1 + j), p.width, reclinerDensityV)
        cradle == -(timesCos(p.width, ((2 * j - reclinerDensityV) * PiFP)
                                      \div (2 * reclinerDensityV)) \div 10)
    IN  <<x + jitterX, spineY + cradle, spineZ + jitterZ>>

dist2(a, b) ==
    (a[1] - b[1]) * (a[1] - b[1]) + (a[2] - b[2]) * (a[2] - b[2])
    + (a[3] - b[3]) * (a[3] - b[3])

\* the links from surface point i (0-based) to the points of its window;
\* dist < connectionDist with connectionDist = (width / densityV) * 1.8
reclinerWindow(ns, b, p, i, count) ==
    LET windowSize == reclinerDensityV * 3
        last == Min(i + windowSize, count) - 1
        js == [k \in 1..Max(last - i, 0) |-> i + k]
        near == SelectSeq(js, LAMBDA j :
                   \* 1.8 / densityV = 0.15 = 3 / 20
                   400 * dist2(ns[b + i + 1], ns[b + j + 1]) < 9 * p.width * p.width)
    IN  [k \in 1..Len(near) |-> <<b + i, b + near[k]>>]

\* surfacePoints.forEach: a leg under every point that draws > 0.97 and lies
\* below half the height.  The legs are pushed in the order of the points,
\* so the m-th leg gets the id Len(ns) + m - 1.
reclinerLegs(g, b, p, seed, count) ==
    LET ks == [k \in 1..count |-> k - 1]
        drops == SelectSeq(ks, LAMBDA k :
                    /\ 100 * random(seed, (reclinerDensityU + 1) * (reclinerDensityV + 2) + k)
                       > 97 * RandRes
                    /\ 2 * g.nodes[b + k + 1][2] < p.height)
    IN  [nodes |-> g.nodes \o [m \in 1..Len(drops) |->
                      <<g.nodes[b + drops[m] + 1][1], 0, g.nodes[b + drops[m] + 1][3]>>],
         edges |-> linkAll(g.edges, [m \in 1..Len(drops) |->
                      <<b + drops[m], newId(g.nodes) + m - 1>>])]

generateVoronoiReclinerOriginal(ns, es, p, seed) ==
    LET b == newId(ns)
        count == (reclinerDensityU + 1) * (reclinerDensityV + 1)
        surface == ns \o [k \in 1..count |->
                       reclinerPoint(p, seed, (k - 1) \div (reclinerDensityV + 1),
                                     (k - 1) % (reclinerDensityV + 1))]
    IN  With(surface, LAMBDA n :
        With(linkAll(es, flat([k \in 1..count |-> reclinerWindow(n, b, p, k - 1, count)])),
             LAMBDA e : reclinerLegs([nodes |-> n, edges |-> e], b, p, seed, count)))

----------------------------------------------------------------------------
(* generateVolumeVoronoi *)

voronoiDensity == 600
voronoiMinCount == 50
voronoiBudget == 10

\* width * height * depth in cubic centimetres
volumeApprox(p) == (p.width * p.height * p.depth) \div 1000

\* a count without the minimum
voronoiCountNoMin(p) == (volumeApprox(p) * voronoiDensity) \div (1000 * 1000)

\* count = Math.max(50, Math.floor(volumeApprox * density)), volume in m^3
voronoiCount(p) == Max(voronoiMinCount, (volumeApprox(p) * voronoiDensity) \div (1000 * 1000))

\* largest k with k^3 <= n
icbrt(n) == CHOOSE k \in 0..1290 : k * k * k <= n /\ (k = 1290 \/ (k + 1) * (k + 1) * (k + 1) > n)

\* threshold = Math.pow(volumeApprox / count, 1/3) * 1.8, in tenths of a mm
voronoiThreshold(p) ==
    LET avgDist == icbrt(((p.width * p.height * p.depth) \div voronoiCount(p)) * 1000)
    IN  (avgDist * 18) \div 10

\* a loop guard that allows one attempt more
voronoiLoopGuardInclusive(pts, att, p) ==
    Len(pts) < voronoiCount(p) /\ att <= voronoiCount(p) * voronoiBudget

\* while (points.length < count && attempts < count * 10)
voronoiLoopGuard(pts, att, p) ==
    Len(pts) < voronoiCount(p) /\ att < voronoiCount(p) * voronoiBudget

\* the sample of one attempt from its three draws rx, ry, rz
voronoiSample(p, rx, ry, rz) ==
    << ((2 * rx - RandRes) * p.width) \div (2 * RandRes),
       (ry * p.height) \div RandRes,
       ((2 * rz - RandRes) * p.depth) \div (2 * RandRes) >>

\* (Math.random() - 0.5) * 0.05, in mm
voronoiJitter(r) == ((2 * r - RandRes) * 50) \div (2 * RandRes)

\* an inner loop that starts at j = 0
voronoiLinksOfAll(pts, i, threshold) ==
    LET near == SelectSeq([k \in 1..Len(pts) |-> k], LAMBDA j :
                   100 * dist2(pts[i].vec, pts[j].vec) < threshold * threshold)
    IN  [k \in 1..Len(near) |-> <<pts[i].id, pts[near[k]].id>>]

\* the inner loop of the connect pass for point i: j = i+1 .. length-1
voronoiLinksOf(pts, i, threshold) ==
    LET js == [k \in 1..(Len(pts) - i) |-> i + k]
        near == SelectSeq(js, LAMBDA j :
                   100 * dist2(pts[i].vec, pts[j].vec) < threshold * threshold)
    IN  [k \in 1..Len(near) |-> <<pts[i].id, pts[near[k]].id>>]

\* the connect pass: every pair i < j with d < threshold, in loop order
voronoiConnect(es, pts, p) ==
    With(voronoiThreshold(p), LAMBDA threshold :
        linkAll(es, flat([i \in 1..Len(pts) |-> voronoiLinksOf(pts, i, threshold)])))

\* The draws the model takes for one attempt when k points are accepted so
\* far: <<rx, ry, rz, jx, jy, jz>>, the three sample draws and the three
\* jitter draws.  Sample draws come from the levels 0 and 1/2 (rz is 0).
\* Every sample the classifier rejects is taken; of the samples it accepts
\* one is taken, which varies with k, jittered by the draws of stream k.
voronoiLattice ==
    LET h == RandRes \div 2
    IN  << <<0, 0, 0>>, <<h, 0, 0>>, <<h, h, 0>>, <<0, h, 0>> >>

voronoiAccepted(t, p) ==
    SelectSeq(voronoiLattice, LAMBDA r :
        LET s == voronoiSample(p, r[1], r[2], r[3])
        IN  isInsideFurniture(t, s[1], s[2], s[3], p))

voronoiDraws(t, p, k) ==
    LET acc == voronoiAccepted(t, p)
        rejected == {voronoiLattice[n] \o <<0, 0, 0>> :
                        n \in {m \in 1..Len(voronoiLattice) :
                                  \A a \in 1..Len(acc) : acc[a] # voronoiLattice[m]}}
        taken == IF acc = <<>> THEN {}
                 ELSE {acc[(k % Len(acc)) + 1]
                       \o <<random(k, 0), random(k, 1), random(k, 2)>>}
    IN  rejected \cup taken

----------------------------------------------------------------------------
(* generateFurniture *)

\* a pattern test that forgets Triangular
isVolumePatternTwo(p) == p.pattern = "Gyroid" \/ p.pattern = "Voronoi"

\* const isVolumePattern = pattern === 'Gyroid' || 'Voronoi' || 'Triangular'
isVolumePattern(p) ==
    p.pattern = "Gyroid" \/ p.pattern = "Voronoi" \/ p.pattern = "Triangular"

\* the generator the if/else chains of generateFurniture select
generatorOf(t, p) ==
    IF isVolumePattern(p)
    THEN IF p.pattern = "Gyroid" THEN "generateVolumeGyroid"
         ELSE IF p.pattern = "Triangular" THEN "generateVolumeTriangular"
         ELSE "generateVolumeVoronoi"
    ELSE IF t = "Chair" THEN "generateLinearChair"
    ELSE IF t = "Table" THEN "generateLinearTable"
    ELSE IF t = "Stool" THEN "generateLinearStool"
    ELSE IF t = "Recliner" THEN "generateVoronoiReclinerOriginal"
    ELSE IF t = "Bench" THEN "Bench"
    ELSE IF t = "Shelf" THEN "Shelf"
    ELSE IF t = "Vase" THEN "Vase"
    ELSE IF t = "Lamp" THEN "Lamp"
    ELSE IF t = "Mobius" THEN "Mobius"
    ELSE "none"

\* the skeletal builders that draw no random numbers
skeletal(name, ns, es, p) ==
    CASE name = "generateLinearChair" -> generateLinearChair(ns, es, p)
      [] name = "generateLinearTable" -> generateLinearTable(ns, es, p)
      [] name = "generateLinearStool" -> generateLinearStool(ns, es, p)
      [] name = "Bench" -> generateLinearBench(ns, es, p)
      [] name = "Shelf" -> generateLinearShelf(ns, es, p)
      [] name = "Vase" -> generateLinearVase(ns, es, p)
      [] name = "Lamp" -> generateLinearLamp(ns, es, p)
      [] name = "Mobius" -> generateLinearMobius(ns, es, p)

SkeletalNames ==
    {"generateLinearChair", "generateLinearTable", "generateLinearStool",
     "Bench", "Shelf", "Vase", "Lamp", "Mobius"}

\* a nodes array that outlives the call
staleNodes == nodes

\* const nodes: Vector3[] = [];  const edges: [number, number][] = [];
freshNodes == <<>>
freshEdges == <<>>

----------------------------------------------------------------------------
(* Serpentine utilities.  Points are in mm; unit vectors (tangents, normals, *)
(* axes) have components in units of 1/FP.  A length the code calls         *)
(* negligible (< 1e-9) is one that is 0 at the model's resolution.          *)

\* largest r in lo..hi with r * r <= n, where lo * lo <= n
RECURSIVE isqrtIn(_, _, _)
isqrtIn(n, lo, hi) ==
    IF lo >= hi THEN lo
    ELSE With((lo + hi + 1) \div 2, LAMBDA mid :
             IF mid * mid <= n THEN isqrtIn(n, mid, hi) ELSE isqrtIn(n, lo, mid - 1))

\* Math.sqrt(n), rounded down
isqrt(n) == With(n, LAMBDA m : isqrtIn(m, 0, 46340))

vsub(a, b) == <<a[1] - b[1], a[2] - b[2], a[3] - b[3]>>
dot(a, b) == a[1] * b[1] + a[2] * b[2] + a[3] * b[3]
\* a.dot(b) of two vectors in units of 1/FP, in units of 1/FP
dotFP(a, b) == dot(a, b) \div FP
\* crossVectors(a, b) of two vectors in units of 1/FP, in units of 1/FP
crossVectors(a, b) ==
    << (a[2] * b[3] - a[3] * b[2]) \div FP,
       (a[3] * b[1] - a[1] * b[3]) \div FP,
       (a[1] * b[2] - a[2] * b[1]) \div FP >>
\* v.length(), in the units of v
vlength(v) == isqrt(dot(v, v))
\* v.clone().multiplyScalar(k / FP)
multiplyScalar(v, k) == <<(v[1] * k) \div FP, (v[2] * k) \div FP, (v[3] * k) \div FP>>
\* p.clone().addScaledVector(n, d / FP)
addScaledVector(p, n, d) ==
    <<p[1] + (n[1] * d) \div FP, p[2] + (n[2] * d) \div FP, p[3] + (n[3] * d) \div FP>>

\* safeUnit(v, fallback): v scaled to length 1 (FP), in any unit of v
safeUnit(v, fallback) ==
    With(vlength(v), LAMBDA len :
        IF len < 1 THEN fallback
        ELSE <<(v[1] * FP) \div len, (v[2] * FP) \div len, (v[3] * FP) \div len>>)

\* the default of safeUnit's second parameter
unitX == <<FP, 0, 0>>

initialNormalFromTangent(t) ==
    With(safeUnit(t, unitX), LAMBDA tn :
        LET up == IF 100 * Abs(tn[3]) > 92 * FP THEN <<FP, 0, 0>> ELSE <<0, 0, FP>>
        IN  safeUnit(crossVectors(tn, up), <<0, FP, 0>>))

\* prevN.clone().applyQuaternion(setFromAxisAngle(axis, angle)) for the unit
\* axis and the angle whose cosine is c: the rotation of prevN about axis,
\* n cos + (axis x n) sin + axis (axis . n)(1 - cos), with sin = sqrt(1 - c^2)
applyAxisAngle(prevN, axis, c) ==
    With(isqrt(FP * FP - c * c), LAMBDA sn :
        LET turned == multiplyScalar(crossVectors(axis, prevN), sn)
            along == multiplyScalar(multiplyScalar(axis, dotFP(axis, prevN)), FP - c)
            kept == multiplyScalar(prevN, c)
        IN  <<kept[1] + turned[1] + along[1], kept[2] + turned[2] + along[2],
              kept[3] + turned[3] + along[3]>>)

transportNormal(prevT, currT, prevN) ==
    With(safeUnit(prevT, unitX), LAMBDA a :
    With(safeUnit(currT, unitX), LAMBDA b :
    With(crossVectors(a, b), LAMBDA axis :
    With(vlength(axis), LAMBDA axisLen :
        IF axisLen < 1 THEN prevN
        ELSE With(applyAxisAngle(prevN, safeUnit(axis, unitX),
                                 Max(-FP, Min(FP, dotFP(a, b)))), LAMBDA n :
                 \* n.addScaledVector(b, -n.dot(b))
                 safeUnit(addScaledVector(n, b, -dotFP(n, b)), prevN))))))

\* points[i + 1].distanceTo(points[i]), in tenths of a mm
distanceTo(a, b) == isqrt(100 * dot(vsub(a, b), vsub(a, b)))

\* the array cum after the first loop, extended from its first i + 1 entries:
\* total += points[i + 1].distanceTo(points[i]); cum.push(total)
RECURSIVE cumFrom(_, _, _)
cumFrom(cum, pts, i) ==
    IF i < Len(pts) - 1
    THEN With(Append(cum, cum[i + 1] + distanceTo(pts[i + 2], pts[i + 1])),
              LAMBDA next : cumFrom(next, pts, i + 1))
    ELSE cum

\* a test that lets polylines of 2 points through
fewerThanTwo(pts) == Len(pts) < 2
\* if (points.length < 3) return points
fewerThanThree(pts) == Len(pts) < 3

\* if (total < 1e-9) return points
negligible(total) == total < 1

\* envelope * envelope * (3 - 2 * envelope), in units of 1/FP
smoothstep(e) == (((e * e) \div FP) * (3 * FP - 2 * e)) \div FP

\* the ramps without the easing
taperEnvelopeLinear(u, taperFraction) ==
    IF taperFraction > 0
    THEN IF u < taperFraction THEN (u * FP) \div taperFraction
         ELSE IF u > FP - taperFraction THEN ((FP - u) * FP) \div taperFraction
         ELSE FP
    ELSE FP

\* the taper envelope at normalized position u; u, taperFraction in 1/FP
taperEnvelope(u, taperFraction) ==
    IF taperFraction > 0
    THEN LET envelope == IF u < taperFraction THEN (u * FP) \div taperFraction
                         ELSE IF u > FP - taperFraction
                         THEN ((FP - u) * FP) \div taperFraction
                         ELSE FP
         IN  smoothstep(envelope)
    ELSE FP

\* a loop that stops before the last point
serpentineLoopGuardShort(pts, i) == i < Len(pts) - 1
\* for (let i = 0; i < points.length; i++)
serpentineLoopGuard(pts, i) == i < Len(pts)

\* one iteration of the loop; st = [prevT, prevN, out, u, envelope], the last
\* two recording the u and the envelope of every iteration.  frequency is in
\* quarters, amplitude in mm.
serpentineStep(st, pts, i, frequency, amplitude, taperFraction, cum) ==
    LET last == Len(pts) - 1
        t == IF i = 0 THEN vsub(pts[2], pts[1])
             ELSE IF i = last THEN vsub(pts[last + 1], pts[last])
             ELSE vsub(pts[i + 2], pts[i])
        \* cum[i] / total, total being the last entry of cum
        u == (cum[i + 1] * FP) \div cum[Len(cum)]
        envelope == taperEnvelope(u, taperFraction)
        \* theta = (Math.PI * 2) * frequency * u
        theta == ((HalfPiFP * u) \div FP) * frequency
        disp == (((Sin(theta) * amplitude) \div FP) * envelope) \div FP
    IN  With(transportNormal(st.prevT, t, st.prevN), LAMBDA n :
            [prevT |-> t, prevN |-> n,
             out |-> Append(st.out, addScaledVector(pts[i + 1], n, disp)),
             u |-> Append(st.u, u),
             envelope |-> Append(st.envelope, envelope)])

RECURSIVE serpentineLoop(_, _, _, _, _, _, _)
serpentineLoop(st, pts, i, frequency, amplitude, taperFraction, cum) ==
    IF serpentineLoopGuard(pts, i)
    THEN With(serpentineStep(st, pts, i, frequency, amplitude, taperFraction, cum),
              LAMBDA next : serpentineLoop(next, pts, i + 1, frequency, amplitude,
                                           taperFraction, cum))
    ELSE st

\* serpentinize(points, frequency, amplitude, taperFraction), with the u and
\* the envelope of every iteration of its loop next to the points it returns
serpentinize(pts, frequency, amplitude, taperFraction) ==
    IF fewerThanThree(pts) THEN [out |-> pts, u |-> <<>>, envelope |-> <<>>]
    ELSE With(cumFrom(<<0>>, pts, 0), LAMBDA cum :
        IF negligible(cum[Len(cum)]) THEN [out |-> pts, u |-> <<>>, envelope |-> <<>>]
        ELSE With(vsub(pts[2], pts[1]), LAMBDA prevT :
             With(serpentineLoop([prevT |-> prevT,
                                  prevN |-> initialNormalFromTangent(prevT),
                                  out |-> <<>>, u |-> <<>>, envelope |-> <<>>],
                                 pts, 0, frequency, amplitude, taperFraction, cum),
                  LAMBDA st : [out |-> st.out, u |-> st.u, envelope |-> st.envelope])))

----------------------------------------------------------------------------
(* Inputs of the model *)

\* widths are 400 mm plus a number of 200 mm steps
MaxDimSteps == 1
\* streams of Math.random() tried for the Recliner
MaxSeed == 1

Widths == {400 + 200 * i : i \in 0..MaxDimSteps}
Heights == {400, 450}
Depths == {400}
SeatHeights == {200}

Dims == [width : Widths, height : Heights, depth : Depths, seatHeight : SeatHeights]

withPattern(d, pat) ==
    [width |-> d.width, height |-> d.height, depth |-> d.depth,
     seatHeight |-> d.seatHeight, pattern |-> pat]

\* the patterns whose generators run in one step of the model
ParamSpace == {withPattern(d, pat) : d \in Dims, pat \in {"Linear", "Gyroid", "Triangular"}}

\* Voronoi calls, whose sampling loop the model runs attempt by attempt
VoronoiParamSpace == {withPattern(d, "Voronoi") : d \in {e \in Dims : e.height = 400}}

\* Spec explores the Voronoi loop for the smallest size only; SpecVoronoi
\* explores it for every width, for a slab-and-legs, a radial and a box
\* classifier
Inputs ==
    (FurnitureTypes \X ParamSpace)
    \cup (FurnitureTypes \X {q \in VoronoiParamSpace : q.width = 400})

VoronoiInputs == {"Table", "Stool", "Shelf"} \X VoronoiParamSpace

\* calls that draw no random numbers
DetInputs ==
    {in \in FurnitureTypes \X {q \in ParamSpace : q.width = 400 /\ q.height = 400} :
        ~(in[1] = "Recliner" /\ in[2].pattern = "Linear")}

NoCall == [type |-> "none"]

\* points handed to the classifier directly: the faces of the boxes the
\* classifier is built from, and the points up to MaxProbeOffset mm off them
MaxProbeOffset == 1

ProbeOffsets == (0 - MaxProbeOffset)..MaxProbeOffset

ClassifierParams ==
    [width : {600, 1000}, height : {1000}, depth : {1000}, seatHeight : {200, 450},
     pattern : {"Gyroid"}]

ProbeXs(p) ==
    {0} \cup {sg * ((p.width * f) \div 200) + o :
                 sg \in {-1, 1}, f \in {70, 100}, o \in ProbeOffsets}

ProbeYs(p) ==
    {(p.height * f) \div 100 + o : f \in {0, 90, 100}, o \in ProbeOffsets}
    \cup {(p.height * 50) \div 100, (p.height * 95) \div 100}

ProbeZs(p) ==
    {0} \cup {sg * (p.depth \div 2 - (p.width * f) \div 200) + o :
                 sg \in {-1, 1}, f \in {0, 30}, o \in ProbeOffsets}

\* polylines handed to serpentinize: up to MaxPolyLen points of a small
\* lattice, so that points coincide, tangents turn, reverse and point along z
MaxPolyLen == 4

PolyPoints == {<<0, 0, 0>>, <<100, 0, 0>>, <<100, 100, 0>>, <<0, 0, 100>>}
Polylines == UNION {[1..n -> PolyPoints] : n \in 0..MaxPolyLen}
\* frequency in quarters, amplitude in mm, taperFraction in 1/FP
Frequencies == {1, 4}
Amplitudes == {0, 50}
TaperFractions == {0, 1500, 5000}

----------------------------------------------------------------------------
(* The state machine: calls of generateFurniture, one after the other *)

Init ==
    /\ pc = "idle"
    /\ type = "none"
    /\ params = [width |-> 0, height |-> 0, depth |-> 0, seatHeight |-> 0, pattern |-> "none"]
    /\ nodes = <<>>
    /\ edges = <<>>
    /\ points = <<>>
    /\ attempts = 0
    /\ ran = {}
    /\ queries = 0
    /\ nodeMap = emptyMap
    /\ saved = NoCall
    /\ probe = NoCall
    /\ serp = NoCall

\* generateFurniture(type, params) is entered
CallFrom(I) ==
    /\ pc \in {"idle", "returned", "kept"}
    /\ \E in \in I :
        /\ type' = in[1]
        /\ params' = in[2]
    /\ pc' = "called"
    /\ nodes' = freshNodes
    /\ edges' = freshEdges
    /\ points' = <<>>
    /\ attempts' = 0
    /\ ran' = {}
    /\ queries' = 0
    /\ nodeMap' = emptyMap
    /\ UNCHANGED <<saved, probe, serp>>

Call == CallFrom(Inputs)

Gyroid ==
    /\ pc = "called"
    /\ generatorOf(type, params) = "generateVolumeGyroid"
    /\ \E g \in {generateVolumeGyroid(nodes, edges, params, type)} :
           /\ nodes' = g.nodes
           /\ edges' = g.edges
           /\ nodeMap' = g.map
           /\ queries' = queries + g.queries
    /\ ran' = ran \cup {"generateVolumeGyroid"}
    /\ pc' = "returned"
    /\ UNCHANGED <<type, params, points, attempts, saved, probe, serp>>

Triangular ==
    /\ pc = "called"
    /\ generatorOf(type, params) = "generateVolumeTriangular"
    /\ \E g \in {generateVolumeTriangular(nodes, edges, params, type)} :
           /\ nodes' = g.nodes
           /\ edges' = g.edges
           /\ nodeMap' = g.map
           /\ queries' = queries + g.queries
    /\ ran' = ran \cup {"generateVolumeTriangular"}
    /\ pc' = "returned"
    /\ UNCHANGED <<type, params, points, attempts, saved, probe, serp>>

\* one iteration of the rejection-sampling loop
VoronoiSample ==
    /\ pc = "called"
    /\ generatorOf(type, params) = "generateVolumeVoronoi"
    /\ voronoiLoopGuard(points, attempts, params)
    /\ attempts' = attempts + 1
    /\ queries' = queries + 1
    /\ ran' = ran \cup {"generateVolumeVoronoi"}
    /\ \E d \in voronoiDraws(type, params, Len(points)) :
        LET s == voronoiSample(params, d[1], d[2], d[3])
            px == s[1] + voronoiJitter(d[4])
            py == s[2] + voronoiJitter(d[5])
            pz == s[3] + voronoiJitter(d[6])
        IN  IF isInsideFurniture(type, s[1], s[2], s[3], params)
            THEN /\ nodes' = addNode(nodes, px, py, pz)
                 /\ points' = Append(points, [id |-> newId(nodes), vec |-> <<px, py, pz>>])
            ELSE UNCHANGED <<nodes, points>>
    /\ UNCHANGED <<pc, type, params, edges, nodeMap, saved, probe, serp>>

\* the loop has ended: the connect pass, and generateFurniture returns
VoronoiConnect ==
    /\ pc = "called"
    /\ generatorOf(type, params) = "generateVolumeVoronoi"
    /\ ~voronoiLoopGuard(points, attempts, params)
    /\ edges' = voronoiConnect(edges, points, params)
    /\ ran' = ran \cup {"generateVolumeVoronoi"}
    /\ pc' = "returned"
    /\ UNCHANGED <<type, params, nodes, points, attempts, queries, nodeMap, saved, probe, serp>>

Skeletal ==
    /\ pc = "called"
    /\ generatorOf(type, params) \in SkeletalNames
    /\ \E g \in {skeletal(generatorOf(type, params), nodes, edges, params)} :
           /\ nodes' = g.nodes
           /\ edges' = g.edges
    /\ ran' = ran \cup {generatorOf(type, params)}
    /\ pc' = "returned"
    /\ UNCHANGED <<type, params, points, attempts, queries, nodeMap, saved, probe, serp>>

Recliner ==
    /\ pc = "called"
    /\ generatorOf(type, params) = "generateVoronoiReclinerOriginal"
    /\ \E seed \in 0..MaxSeed :
        \E g \in {generateVoronoiReclinerOriginal(nodes, edges, params, seed)} :
            /\ nodes' = g.nodes
            /\ edges' = g.edges
    /\ ran' = ran \cup {"generateVoronoiReclinerOriginal"}
    /\ pc' = "returned"
    /\ UNCHANGED <<type, params, points, attempts, queries, nodeMap, saved, probe, serp>>

\* the caller keeps the graph a call returned (SensingScene holds it while
\* later calls are made)
Save ==
    /\ pc = "returned"
    /\ saved = NoCall
    /\ saved' = [type |-> type, params |-> params, nodes |-> nodes, edges |-> edges]
    /\ pc' = "kept"
    /\ UNCHANGED <<type, params, nodes, edges, points, attempts, ran, queries, nodeMap,
                   probe, serp>>

\* one direct call of isInsideFurniture(type, x, y, z, params)
Classify ==
    /\ pc = "idle"
    /\ \E t \in FurnitureTypes, p \in ClassifierParams :
        \E x \in ProbeXs(p), y \in ProbeYs(p), z \in ProbeZs(p) :
            probe' = [type |-> t, x |-> x, y |-> y, z |-> z, params |-> p,
                      inside |-> isInsideFurniture(t, x, y, z, p)]
    /\ pc' = "classified"
    /\ UNCHANGED <<type, params, nodes, edges, points, attempts, ran, queries, nodeMap,
                   saved, serp>>

\* serpentinize(points, frequency, amplitude, taperFraction) is entered
CallSerpentinize ==
    /\ pc = "idle"
    /\ \E pts \in Polylines, f \in Frequencies, a \in Amplitudes, tf \in TaperFractions :
        serp' = [points |-> pts, frequency |-> f, amplitude |-> a, taperFraction |-> tf]
    /\ pc' = "bending"
    /\ UNCHANGED <<type, params, nodes, edges, points, attempts, ran, queries, nodeMap,
                   saved, probe>>

\* serpentinize runs and returns
Serpentinize ==
    /\ pc = "bending"
    /\ \E r \in {serpentinize(serp.points, serp.frequency, serp.amplitude,
                              serp.taperFraction)} :
            serp' = [points |-> serp.points, frequency |-> serp.frequency,
                     amplitude |-> serp.amplitude, taperFraction |-> serp.taperFraction,
                     out |-> r.out, u |-> r.u, envelope |-> r.envelope]
    /\ pc' = "bent"
    /\ UNCHANGED <<type, params, nodes, edges, points, attempts, ran, queries, nodeMap,
                   saved, probe>>

CallVoronoi == CallFrom(VoronoiInputs)

CallDet == CallFrom(DetInputs)

Next ==
    \/ Call
    \/ Gyroid
    \/ Triangular
    \/ VoronoiSample
    \/ VoronoiConnect
    \/ Skeletal
    \/ Recliner

Spec == Init /\ [][Next]_vars

\* the Voronoi generator alone, for every width
NextVoronoi ==
    \/ CallVoronoi
    \/ VoronoiSample
    \/ VoronoiConnect

SpecVoronoi == Init /\ [][NextVoronoi]_vars

\* calls that draw no random numbers, one of whose results is kept
NextDet ==
    \/ CallDet
    \/ Gyroid
    \/ Triangular
    \/ Skeletal
    \/ Save

SpecDet == Init /\ [][NextDet]_vars

\* the classifier called directly
SpecClassifier == Init /\ [][Classify]_vars

\* serpentinize called directly
NextSerpentine ==
    \/ CallSerpentinize
    \/ Serpentinize

SpecSerpentine == Init /\ [][NextSerpentine]_vars

----------------------------------------------------------------------------
(* Properties of the returned graph *)

\* C1: in the graph generateFurniture returns, for every archetype, every
\* pattern and every outcome of the random draws, every edge [i, j] has
\* 0 <= i < nodes.length and 0 <= j < nodes.length.
C1_EdgeIndicesInRange ==
    pc = "returned" =>
        \A k \in 1..Len(edges) :
            /\ 0 <= edges[k][1] /\ edges[k][1] < Len(nodes)
            /\ 0 <= edges[k][2] /\ edges[k][2] < Len(nodes)

\* a returned graph one of whose edges ends at the last node
C1_Witness ==
    /\ pc = "returned"
    /\ \E k \in 1..Len(edges) : edges[k][2] = Len(nodes) - 1

\* the target of the Voronoi loop, max(50, floor(width*height*depth*600)),
\* from the parameters of the call (mm)
VoronoiTarget ==
    Max(50, (((params.width * params.height * params.depth) \div 1000) * 600)
            \div (1000 * 1000))

\* C2, as stated: a call with pattern Voronoi always returns at least 50
\* nodes, whatever the archetype and the random draws.
C2_AtLeastFiftyNodes ==
    (pc = "returned" /\ params.pattern = "Voronoi") => Len(nodes) >= 50

\* C2, amended: a call with pattern Voronoi returns at least 50 nodes
\* whenever its sampling loop ended with fewer than 10 * target attempts
\* made.
C2_AtLeastFiftyNodesWithinBudget ==
    (pc = "returned" /\ params.pattern = "Voronoi" /\ attempts < 10 * VoronoiTarget)
        => Len(nodes) >= 50

\* a Voronoi call that returned within its budget although some samples
\* were rejected
C2_Witness ==
    /\ pc = "returned"
    /\ params.pattern = "Voronoi"
    /\ attempts < 10 * VoronoiTarget
    /\ attempts > Len(nodes)
    /\ Len(nodes) >= 50

\* C3: the Voronoi sampling loop makes at most 10 * target attempts, adds one
\* node per accepted attempt (so never more nodes than attempts), never has
\* more than target nodes, is over once target nodes are there or 10 * target
\* attempts are made, and returns fewer than target nodes only with
\* 10 * target attempts made.
C3_SamplingLoopBounded ==
    (params.pattern = "Voronoi" /\ pc \in {"called", "returned"}) =>
        /\ attempts <= 10 * VoronoiTarget
        /\ Len(nodes) = Len(points)
        /\ \A k \in 1..Len(points) : points[k].id = k - 1 /\ nodes[k] = points[k].vec
        /\ Len(nodes) <= attempts
        /\ Len(nodes) <= VoronoiTarget
        /\ queries = attempts
        /\ pc = "returned" =>
            (Len(nodes) = VoronoiTarget \/ attempts = 10 * VoronoiTarget)

\* a Voronoi call that used up its budget and returned some nodes, fewer
\* than the target
C3_Witness ==
    /\ pc = "returned"
    /\ params.pattern = "Voronoi"
    /\ attempts = 10 * VoronoiTarget
    /\ Len(nodes) > 0
    /\ Len(nodes) < VoronoiTarget

\* the set of the edges, and the offset from node a to node b (ids)
EdgeSet == {edges[k] : k \in 1..Len(edges)}
offset(a, b) ==
    <<nodes[b + 1][1] - nodes[a + 1][1], nodes[b + 1][2] - nodes[a + 1][2],
      nodes[b + 1][3] - nodes[a + 1][3]>>

\* one grid step along one axis
AxisSteps == {<<1, 0, 0>>, <<0, 1, 0>>, <<0, 0, 1>>}
\* the 7 forward offsets
ForwardSteps == AxisSteps \cup {<<1, 1, 0>>, <<1, 0, 1>>, <<0, 1, 1>>, <<1, 1, 1>>}
scaled(S, cell) == {<<cell * d[1], cell * d[2], cell * d[3]>> : d \in S}

\* C4, as stated: the edges of the Gyroid generator are exactly the pairs
\* (p, q) of kept grid points with q the +x, +y or +z neighbour of p; no
\* edge joins the last x-column to the first x-column of the next y-row.
\* Kept grid points are the nodes, res apart on the grid.
C4_GyroidEdgesAreAxisNeighbours ==
    (pc = "returned" /\ params.pattern = "Gyroid") =>
        /\ \A e \in EdgeSet : offset(e[1], e[2]) \in scaled(AxisSteps, GyroidRes)
        /\ \A a, b \in 0..(Len(nodes) - 1) :
              offset(a, b) \in scaled(AxisSteps, GyroidRes) => <<a, b>> \in EdgeSet

\* the call generateFurniture('Vase', {width: 0.4, height: 0.4, depth: 0.4,
\* pattern: 'Gyroid'}) has returned an edge from the kept point (6, 2, 0),
\* in the last x-column, to the kept point (0, 3, 0), in the first
C4_Witness ==
    /\ pc = "returned"
    /\ type = "Vase"
    /\ params.pattern = "Gyroid"
    /\ <<params.width, params.height, params.depth>> = <<400, 400, 400>>
    /\ \E e \in EdgeSet :
          /\ nodes[e[1] + 1] = <<200, 80, -280>>
          /\ nodes[e[2] + 1] = <<-280, 160, -280>>

\* C5, as stated: the edges of the Triangular generator are exactly the
\* pairs (p, q) of grid points passing the classifier with q - p one of the
\* 7 forward offsets.  Those grid points are the nodes, cellSize apart.
C5_TriangularEdgesAreForwardNeighbours ==
    (pc = "returned" /\ params.pattern = "Triangular") =>
        /\ \A e \in EdgeSet : offset(e[1], e[2]) \in scaled(ForwardSteps, cellSize)
        /\ \A a, b \in 0..(Len(nodes) - 1) :
              offset(a, b) \in scaled(ForwardSteps, cellSize) => <<a, b>> \in EdgeSet

\* the call generateFurniture('Shelf', {width: 0.4, height: 0.4, depth: 0.4,
\* pattern: 'Triangular'}) has returned an edge from the grid point
\* (2, 0, 0) to the grid point (0, 1, 0)
C5_Witness ==
    /\ pc = "returned"
    /\ type = "Shelf"
    /\ params.pattern = "Triangular"
    /\ <<params.width, params.height, params.depth>> = <<400, 400, 400>>
    /\ \E e \in EdgeSet :
          /\ nodes[e[1] + 1] = <<100, 0, -200>>
          /\ nodes[e[2] + 1] = <<-200, 150, -200>>

\* the call generateFurniture('Stool', {width: 0.4, height: 0.45, depth: 0.4,
\* seatHeight: 0.2, pattern: 'Linear'}) has returned
StoolCallReturned ==
    /\ pc = "returned"
    /\ type = "Stool"
    /\ params = [width |-> 400, height |-> 450, depth |-> 400, seatHeight |-> 200,
                 pattern |-> "Linear"]

\* C6, as stated: that call returns exactly 2 * steps = 8 nodes.
C6_StoolHasEightNodes == StoolCallReturned => Len(nodes) = 8

\* C6, amended: that call returns exactly 4 * steps = 16 nodes, two ring
\* nodes and two rest nodes per step.
C6_StoolHasSixteenNodes == StoolCallReturned => Len(nodes) = 16

\* that call has returned, with the 4 edges of each step
C6_Witness == StoolCallReturned /\ Len(edges) = 16

\* C7: two calls with the same archetype and the same params on a path that
\* draws no random numbers return identical graphs, whatever calls were made
\* in between: a graph returned equals the graph kept from an earlier call
\* with the same input.
C7_SameInputSameGraph ==
    (pc = "returned" /\ saved # NoCall /\ saved.type = type /\ saved.params = params)
        => (saved.nodes = nodes /\ saved.edges = edges)

\* a call returned whose input is that of an earlier call, whose graph was
\* kept
C7_Witness ==
    /\ pc = "returned"
    /\ saved # NoCall
    /\ saved.type = type
    /\ saved.params = params
    /\ params.pattern = "Triangular"
    /\ Len(edges) > 0

\* the skeletal builder of each archetype
BuilderOf ==
    [t \in FurnitureTypes |->
        CASE t = "Chair" -> "generateLinearChair"
          [] t = "Table" -> "generateLinearTable"
          [] t = "Stool" -> "generateLinearStool"
          [] t = "Recliner" -> "generateVoronoiReclinerOriginal"
          [] OTHER -> t]

\* C8: with pattern Gyroid, Voronoi or Triangular exactly the matching
\* volumetric generator has built the returned graph, for every archetype;
\* with pattern Linear exactly the builder of the archetype has, and the
\* classifier was never queried.
C8_Dispatch ==
    pc = "returned" =>
        /\ params.pattern = "Gyroid" => ran = {"generateVolumeGyroid"}
        /\ params.pattern = "Voronoi" => ran = {"generateVolumeVoronoi"}
        /\ params.pattern = "Triangular" => ran = {"generateVolumeTriangular"}
        /\ params.pattern = "Linear" => (ran = {BuilderOf[type]} /\ queries = 0)

\* a Recliner built by the Triangular generator, which queried the classifier
C8_Witness ==
    /\ pc = "returned"
    /\ type = "Recliner"
    /\ params.pattern = "Triangular"
    /\ ran = {"generateVolumeTriangular"}
    /\ queries > 0

----------------------------------------------------------------------------
(* Properties of the classifier *)

C10_DefaultIsBoundingBox ==
    (pc = "classified" /\ probe.type \in {"Shelf", "Recliner", "Lamp", "Mobius"}) =>
        (probe.inside <=>
            /\ 2 * Abs(probe.x) <= probe.params.width
            /\ 0 <= probe.y /\ probe.y <= probe.params.height
            /\ 2 * Abs(probe.z) <= probe.params.depth)

\* a Lamp asked about a corner of its bounding box, its seatHeight above
\* the default
C10_Witness ==
    /\ pc = "classified"
    /\ probe.type = "Lamp"
    /\ probe.params.seatHeight = 450
    /\ 2 * probe.x = probe.params.width
    /\ probe.y = probe.params.height
    /\ 2 * probe.z = 0 - probe.params.depth
    /\ probe.inside

----------------------------------------------------------------------------
(* Properties of the generators *)

\* largest k with k * k * k <= x
Cbrt(x) == CHOOSE k \in 0..1290 : k * k * k <= x /\ (k = 1290 \/ (k + 1) * (k + 1) * (k + 1) > x)

\* 1.8 * (width * height * depth / count)^(1/3) for the parameters of the
\* call, in tenths of a mm
ThresholdFor(count) ==
    (18 * Cbrt(((params.width * params.height * params.depth) \div count) * 1000)) \div 10

\* nodes a and b (ids) are less than thr tenths of a mm apart
Nearer(a, b, thr) == 100 * dist2(nodes[a + 1], nodes[b + 1]) < thr * thr

\* C14: after a Voronoi call there is an edge between two accepted points
\* iff they are distinct and their distance is strictly below
\* 1.8 * (width * height * depth / targetCount)^(1/3), targetCount being the
\* requested count; no unordered pair is linked twice, so there are at most
\* n * (n - 1) / 2 edges for n accepted points.
C14_VoronoiConnectionRule ==
    (pc = "returned" /\ params.pattern = "Voronoi") =>
        \A thr \in {ThresholdFor(VoronoiTarget)} :
            \* every edge joins two distinct points nearer than the threshold
            /\ \A k \in 1..Len(edges) :
                  edges[k][1] # edges[k][2] /\ Nearer(edges[k][1], edges[k][2], thr)
            \* no unordered pair is linked twice
            /\ Cardinality({{edges[k][1], edges[k][2]} : k \in 1..Len(edges)}) = Len(edges)
            \* and the edges are as many as the pairs nearer than the threshold
            /\ Len(edges) = Cardinality({pr \in (0..(Len(nodes) - 1)) \X (0..(Len(nodes) - 1)) :
                                            pr[1] < pr[2] /\ Nearer(pr[1], pr[2], thr)})
            /\ 2 * Len(edges) <= Len(nodes) * (Len(nodes) - 1)

\* a Voronoi call returned 40 accepted points of 50 requested, some of them
\* linked, and left unlinked two points that are nearer than the threshold
\* computed from the 40 but not nearer than the one computed from the 50
C14_Witness ==
    /\ pc = "returned"
    /\ params.pattern = "Voronoi"
    /\ VoronoiTarget = 50
    /\ Len(nodes) = 40
    /\ Len(edges) > 0
    /\ \E a, b \in 0..(Len(nodes) - 1) :
          /\ a < b
          /\ Nearer(a, b, ThresholdFor(Len(nodes)))
          /\ ~Nearer(a, b, ThresholdFor(VoronoiTarget))
          /\ <<a, b>> \notin EdgeSet

\* a call of the skeletal builder of archetype t has returned
LinearCall(t) == pc = "returned" /\ type = t /\ params.pattern = "Linear"

\* nodes a and b (ids) are joined by an edge, in either direction
Linked(a, b) == <<a, b>> \in EdgeSet \/ <<b, a>> \in EdgeSet

\* the id of the node at position pos
IdAt(pos) == CHOOSE a \in 0..(Len(nodes) - 1) : nodes[a + 1] = pos

\* C15: the Mobius builder returns 64 * 5 = 320 nodes, grid[i][j] being node
\* 5 * i + j; for every i < 63 the lengthwise edge from grid[i][j] goes to
\* grid[i + 1][j], and at the seam (i = 63) it goes to grid[0][4 - j]: the
\* cross-section index is reversed on closure and nowhere else.  Every edge
\* between two rows goes from a row to the next, lengthwise or to the next
\* column.
C15_MobiusSeamReversed ==
    LinearCall("Mobius") =>
        \A E \in {EdgeSet} :
            /\ Len(nodes) = 320
            /\ \A i \in 0..62, j \in 0..4 :
                  /\ <<5 * i + j, 5 * (i + 1) + j>> \in E
                  /\ j # 2 => <<5 * i + j, 5 * (i + 1) + (4 - j)>> \notin E
            /\ \A j \in 0..4 :
                  /\ <<5 * 63 + j, 4 - j>> \in E
                  /\ j # 2 => <<5 * 63 + j, j>> \notin E
            /\ \A e \in E :
                  LET i == e[1] \div 5
                      j == e[1] % 5
                      i2 == e[2] \div 5
                      j2 == e[2] % 5
                  IN  i2 # i =>
                         /\ i2 = (i + 1) % 64
                         /\ i < 63 => j2 \in {j, j + 1}
                         /\ i = 63 => j2 = 4 - j

\* a Mobius strip whose seam joins grid[63][0] to grid[0][4]
C15_Witness ==
    /\ LinearCall("Mobius")
    /\ Len(nodes) = 320
    /\ <<315, 4>> \in EdgeSet
    /\ <<310, 315>> \in EdgeSet

\* C16, as stated: the Lamp builder returns 16 layers of 9 points, exactly
\* 16 * 9 = 144 nodes, for every params.
C16_LampHas144Nodes == LinearCall("Lamp") => Len(nodes) = 144

\* C16, amended: the Lamp builder returns 17 layers (i = 0..16) of 9 points,
\* exactly 17 * 9 = 153 nodes, for every params; layer i lies at
\* y = i / 16 * height.
C16_LampHas153Nodes ==
    LinearCall("Lamp") =>
        /\ Len(nodes) = 153
        /\ \A k \in 1..Len(nodes) :
              nodes[k][2] = (((k - 1) \div 9) * params.height) \div 16

\* a Lamp whose last node lies in the layer at full height
C16_Witness ==
    /\ LinearCall("Lamp")
    /\ Len(nodes) = 153
    /\ nodes[153][2] = params.height
    /\ nodes[144][2] < params.height

\* the stretcher node of the Chair at the corner (sx, sz) of signs
ChairStretcher(sx, sz) ==
    IdAt(<<sx * (params.width \div 2), (3 * params.seatHeight) \div 10,
           sz * (params.depth \div 2)>>)

\* C17, as stated: the four stretcher nodes of the Chair, at
\* y = 0.3 * seatHeight, form a ring: front-left, front-right, back-right
\* and back-left are joined in a closed 4-cycle of edges.
C17_ChairStretcherRing ==
    LinearCall("Chair") =>
        /\ Linked(ChairStretcher(-1, 1), ChairStretcher(1, 1))
        /\ Linked(ChairStretcher(1, 1), ChairStretcher(1, -1))
        /\ Linked(ChairStretcher(1, -1), ChairStretcher(-1, -1))
        /\ Linked(ChairStretcher(-1, -1), ChairStretcher(-1, 1))

\* C17, amended: the four stretcher nodes of the Chair carry exactly two
\* edges, front-left to back-left and front-right to back-right; there is no
\* front and no back stretcher, and no other edge ends at a stretcher node.
C17_ChairSideStretchers ==
    LinearCall("Chair") =>
        LET fl == ChairStretcher(-1, 1)
            fr == ChairStretcher(1, 1)
            bl == ChairStretcher(-1, -1)
            br == ChairStretcher(1, -1)
        IN  /\ Cardinality({fl, fr, bl, br}) = 4
            /\ <<fl, bl>> \in EdgeSet
            /\ <<fr, br>> \in EdgeSet
            /\ ~Linked(fl, fr)
            /\ ~Linked(bl, br)
            /\ \A e \in EdgeSet :
                  (e[1] \in {fl, fr, bl, br} \/ e[2] \in {fl, fr, bl, br})
                      => e \in {<<fl, bl>>, <<fr, br>>}

\* a Chair with its 14 nodes, whose left stretcher joins the front-left to
\* the back-left stretcher node
C17_Witness ==
    /\ LinearCall("Chair")
    /\ Len(nodes) = 14
    /\ nodes[ChairStretcher(-1, 1) + 1][2] = (3 * params.seatHeight) \div 10
    /\ <<ChairStretcher(-1, 1), ChairStretcher(-1, -1)>> \in EdgeSet

\* the top and the floor corner of the Table at the corner (sx, sz) of signs
TableTopCorner(sx, sz) ==
    IdAt(<<sx * (params.width \div 2), params.height, sz * (params.depth \div 2)>>)
TableFloorCorner(sx, sz) ==
    IdAt(<<sx * (params.width \div 2), 0, sz * (params.depth \div 2)>>)

\* C18, as stated: besides the 4 leg edges and the 4 edges of the top quad
\* the Table has the two top diagonals, front-left-top to back-right-top and
\* front-right-top to back-left-top.
C18_TableTopDiagonals ==
    LinearCall("Table") =>
        /\ Linked(TableTopCorner(-1, 1), TableTopCorner(1, -1))
        /\ Linked(TableTopCorner(1, 1), TableTopCorner(-1, -1))

\* C18, amended: the Table has the 4 leg edges and the 4 edges of the top
\* quad and no top diagonal; the top is braced by the wheel instead: each
\* top corner is joined to the midpoints of its two top edges (8 edges) and
\* each midpoint to the centre (4 edges), 20 edges and 13 nodes in all.
C18_TableTopWheel ==
    LinearCall("Table") =>
        LET w2 == params.width \div 2
            d2 == params.depth \div 2
            h == params.height
            centre == IdAt(<<0, h, 0>>)
            Signs == {-1, 1}
        IN  /\ Len(nodes) = 13
            /\ Len(edges) = 20
            /\ \A sx, sz \in Signs :
                  /\ Linked(TableFloorCorner(sx, sz), TableTopCorner(sx, sz))
                  /\ Linked(TableTopCorner(sx, sz), TableTopCorner(-sx, sz))
                  /\ Linked(TableTopCorner(sx, sz), TableTopCorner(sx, -sz))
                  /\ ~Linked(TableTopCorner(sx, sz), TableTopCorner(-sx, -sz))
                  /\ Linked(TableTopCorner(sx, sz), IdAt(<<0, h, sz * d2>>))
                  /\ Linked(TableTopCorner(sx, sz), IdAt(<<sx * w2, h, 0>>))
                  /\ Linked(IdAt(<<0, h, sz * d2>>), centre)
                  /\ Linked(IdAt(<<sx * w2, h, 0>>), centre)

\* a Table whose centre node is joined to the midpoint of the front top edge
C18_Witness ==
    /\ LinearCall("Table")
    /\ Len(edges) = 20
    /\ Linked(IdAt(<<0, params.height, params.depth \div 2>>), IdAt(<<0, params.height, 0>>))
    /\ Linked(TableTopCorner(-1, 1), TableTopCorner(1, 1))

\* the top node of frame i of the Bench on the side sz (1 front, -1 back)
BenchTop(i, sz) ==
    IdAt(<<-(params.width \div 2) + i * (params.width \div 2), params.height,
           sz * (params.depth \div 2)>>)

\* the corner (sx, sz) of level i of the Shelf
ShelfCorner(i, sx, sz) ==
    IdAt(<<sx * (params.width \div 2), (i * params.height) \div 3,
           sz * (params.depth \div 2)>>)

\* C19: in the Bench, for every frame i >= 1 the four bracing edges join the
\* top-front and top-back nodes of frame i - 1 to those of frame i, and no
\* other edge joins two frames; in the Shelf, for every level i >= 1 each
\* corner is joined to the same corner one level below, and no other edge
\* joins two levels.
C19_PreviousFrameIds ==
    /\ LinearCall("Bench") =>
          /\ Len(nodes) = 12
          /\ \A i \in 1..2 : \A s1, s2 \in {-1, 1} :
                <<BenchTop(i - 1, s1), BenchTop(i, s2)>> \in EdgeSet
          /\ \A e \in EdgeSet :
                nodes[e[1] + 1][1] # nodes[e[2] + 1][1] =>
                    \E i \in 1..2 : \E s1, s2 \in {-1, 1} :
                        e = <<BenchTop(i - 1, s1), BenchTop(i, s2)>>
    /\ LinearCall("Shelf") =>
          /\ Len(nodes) = 16
          /\ \A i \in 1..3 : \A sx, sz \in {-1, 1} :
                <<ShelfCorner(i - 1, sx, sz), ShelfCorner(i, sx, sz)>> \in EdgeSet
          /\ \A e \in EdgeSet :
                nodes[e[1] + 1][2] # nodes[e[2] + 1][2] =>
                    \E i \in 1..3 : \E sx, sz \in {-1, 1} :
                        e = <<ShelfCorner(i - 1, sx, sz), ShelfCorner(i, sx, sz)>>

\* a Bench whose last frame is braced to the middle frame, top-back to
\* top-front
C19_Witness ==
    /\ LinearCall("Bench")
    /\ Len(edges) = 17
    /\ <<BenchTop(1, -1), BenchTop(2, 1)>> \in EdgeSet
    /\ BenchTop(1, -1) = 7
    /\ BenchTop(2, 1) = 10

\* the grid points the loops of the grid generator of the call visit, and
\* the key of a grid point
VisitedGrid ==
    IF params.pattern = "Gyroid"
    THEN LET c == gyroidContext(type, params)
         IN  (0..(c.nx - 1)) \X (0..(c.ny - 1)) \X (0..(c.nz - 1))
    ELSE LET c == triContext(type, params)
         IN  (0..c.nx) \X (0..c.ny) \X (0..c.nz)
GridKey(g) ==
    IF params.pattern = "Gyroid"
    THEN idx(gyroidContext(type, params), g[1], g[2], g[3])
    ELSE idx(triContext(type, params), g[1], g[2], g[3])

\* C20, as stated: in the Gyroid and the Triangular generator two distinct
\* grid points the loops visit never share a key x + y * nx + z * nx * ny,
\* so every node created is the value of exactly one map entry and no map
\* entry is overwritten.
C20_GridIndexInjective ==
    (pc = "returned" /\ params.pattern \in {"Gyroid", "Triangular"}) =>
        /\ Cardinality({GridKey(g) : g \in VisitedGrid}) = Cardinality(VisitedGrid)
        /\ Len(nodeMap.order) = Len(nodes)
        /\ \A k \in 0..(Len(nodes) - 1) :
              Cardinality({key \in DOMAIN nodeMap.val : nodeMap.val[key] = k}) = 1

\* the call generateFurniture('Shelf', {width: 0.4, height: 0.45, depth: 0.4,
\* pattern: 'Triangular'}) has returned 36 nodes and a map of 30 entries:
\* the key 9 of the grid point (0, 0, 1), node 1, was overwritten by the
\* grid point (0, 3, 0), node 9
C20_Witness ==
    /\ pc = "returned"
    /\ type = "Shelf"
    /\ params.pattern = "Triangular"
    /\ <<params.width, params.height, params.depth>> = <<400, 450, 400>>
    /\ Len(nodes) = 36
    /\ Len(nodeMap.order) = 30
    /\ nodes[2] = <<-200, 0, -50>>
    /\ nodes[10] = <<-200, 450, -200>>
    /\ nodeMap.val[9] = 9

\* the nodes (ids) reachable along edges, in either direction, from the nodes
\* of front, seen being those reached before
RECURSIVE ReachFrom(_, _, _)
ReachFrom(E, seen, front) ==
    IF front = {}
    THEN seen
    ELSE With(seen \cup front, LAMBDA s :
            With(({e[2] : e \in {d \in E : d[1] \in front}}
                    \cup {e[1] : e \in {d \in E : d[2] \in front}}) \ s,
                 LAMBDA f : ReachFrom(E, s, f)))

\* the connected component of node a
ComponentOf(a) == ReachFrom(EdgeSet, {}, {a})

\* the archetypes whose skeletal builder draws no random numbers
DeterministicSkeletons ==
    {"Chair", "Table", "Stool", "Bench", "Shelf", "Vase", "Lamp", "Mobius"}

\* C21, as stated: for pattern Linear and each archetype of Chair, Table,
\* Stool, Bench, Shelf, Vase, Lamp and Mobius the returned graph is
\* connected: every node is reachable from every other node along edges, so
\* the component of node 0 holds every node.
C21_SkeletalGraphsConnected ==
    (\E t \in DeterministicSkeletons : LinearCall(t)) =>
        ComponentOf(0) = 0..(Len(nodes) - 1)

\* a Chair of 14 nodes has returned: the component of its first floor contact
\* holds the 10 nodes of the legs, the seat and the backrest, and the two
\* side stretchers are two more components of 2 nodes each
C21_Witness ==
    /\ LinearCall("Chair")
    /\ Len(nodes) = 14
    /\ ComponentOf(0) = 0..9
    /\ ComponentOf(ChairStretcher(-1, 1)) = {ChairStretcher(-1, 1), ChairStretcher(-1, -1)}
    /\ ComponentOf(ChairStretcher(1, 1)) = {ChairStretcher(1, 1), ChairStretcher(1, -1)}

\* C22: no generator emits a self-loop: for every archetype, every pattern,
\* every width, height and depth and every outcome of the random draws,
\* every edge [i, j] of the returned graph has i # j.
C22_NoSelfLoop ==
    pc = "returned" => \A k \in 1..Len(edges) : edges[k][1] # edges[k][2]

\* a Triangular call has returned a lattice in which the node of a grid
\* point is linked to the node of a forward neighbour, created right after
\* it
C22_Witness ==
    /\ pc = "returned"
    /\ params.pattern = "Triangular"
    /\ Len(nodes) > 1
    /\ \E k \in 1..Len(edges) : edges[k][2] = edges[k][1] + 1

\* the point handed to the classifier lies in the bounding box that the
\* volumetric generators scan
InBoundingBox ==
    /\ 2 * Abs(probe.x) <= probe.params.width
    /\ 0 <= probe.y /\ probe.y <= probe.params.height
    /\ 2 * Abs(probe.z) <= probe.params.depth

\* the classifier was called, with 0 <= seatHeight <= height, and accepted
\* the point
Accepted ==
    /\ pc = "classified"
    /\ probe.inside
    /\ 0 <= probe.params.seatHeight
    /\ probe.params.seatHeight <= probe.params.height

\* C23, as stated: for every archetype and all params with 0 <= seatHeight
\* <= height, every point accepted by isInsideFurniture satisfies
\* |x| <= width / 2, 0 <= y <= height and |z| <= depth / 2.
C23_ClassifierInsideBox == Accepted => InBoundingBox

\* the classifier accepted the point (0.301, 0, 0) for a Stool of width 0.6,
\* height 1 and depth 1: it lies on the floor within the bottom radius
\* width / 1.5 = 0.4 and outside the box, whose half width is 0.3
C23_Witness ==
    /\ Accepted
    /\ probe.type = "Stool"
    /\ <<probe.params.width, probe.params.height, probe.params.depth>> = <<600, 1000, 1000>>
    /\ <<probe.x, probe.y, probe.z>> = <<301, 0, 0>>
    /\ ~InBoundingBox

----------------------------------------------------------------------------
(* Properties of serpentinize *)

\* C11: serpentinize returns a polyline with exactly as many points as its
\* input, for every input polyline (of 0, 1, 2 or more points), every
\* frequency, amplitude and taperFraction.
C11_SameLength == pc = "bent" => Len(serp.out) = Len(serp.points)

\* a polyline of 4 points that came back displaced
C11_Witness ==
    /\ pc = "bent"
    /\ Len(serp.points) = 4
    /\ Len(serp.out) = 4
    /\ serp.out # serp.points

\* all points of the input polyline coincide: its arc length is 0
AllCoincide == \A k \in 1..(Len(serp.points) - 1) : serp.points[k + 1] = serp.points[k]

\* C12: on a polyline of fewer than 3 points, and on one whose arc length is
\* negligible (all points coincide), serpentinize returns the input points
\* unchanged, whatever the frequency, amplitude and taperFraction.
C12_DegenerateUnchanged ==
    (pc = "bent" /\ (Len(serp.points) < 3 \/ AllCoincide)) => serp.out = serp.points

\* 3 or more coinciding points, with an amplitude and no taper, came back
\* unchanged
C12_Witness ==
    /\ pc = "bent"
    /\ Len(serp.points) >= 3
    /\ AllCoincide
    /\ serp.amplitude > 0
    /\ serp.taperFraction = 0
    /\ serp.out = serp.points

\* x * x * (3 - 2 * x) on [0, 1], in units of 1/FP
Eased(x) == (((x * x) \div FP) * (3 * FP - 2 * x)) \div FP

\* the call went through the loop with a taperFraction in (0, 0.5]
TaperedCall ==
    /\ pc = "bent"
    /\ Len(serp.points) >= 3
    /\ ~AllCoincide
    /\ 0 < serp.taperFraction
    /\ 2 * serp.taperFraction <= FP

\* C13: for 0 < taperFraction <= 0.5 the envelope at u is
\* smoothstep(u / taperFraction) for u < taperFraction,
\* smoothstep((1 - u) / taperFraction) for u > 1 - taperFraction and 1 in
\* between; it lies in [0, 1] and is 0 at u = 0 and u = 1, which are the u of
\* the first and the last point, so the first and the last output point
\* equal the first and the last input point.
C13_TaperEnvelope ==
    TaperedCall =>
        LET tf == serp.taperFraction
            n == Len(serp.points)
        IN  /\ Len(serp.u) = n /\ Len(serp.envelope) = n
            /\ \A k \in 1..n :
                  LET u == serp.u[k]
                      e == serp.envelope[k]
                  IN  /\ 0 <= u /\ u <= FP
                      /\ 0 <= e /\ e <= FP
                      /\ u < tf => e = Eased((u * FP) \div tf)
                      /\ u > FP - tf => e = Eased(((FP - u) * FP) \div tf)
                      /\ (tf <= u /\ u <= FP - tf) => e = FP
                      /\ u = 0 => e = 0
                      /\ u = FP => e = 0
            /\ serp.u[1] = 0 /\ serp.u[n] = FP
            /\ serp.out[1] = serp.points[1]
            /\ serp.out[n] = serp.points[n]

\* a call with taperFraction 0.5 and an amplitude, one of whose points lies
\* on the first ramp and was displaced
C13_Witness ==
    /\ TaperedCall
    /\ serp.taperFraction = 5000
    /\ serp.amplitude > 0
    /\ \E k \in 1..Len(serp.points) :
          /\ 0 < serp.u[k] /\ serp.u[k] < serp.taperFraction
          /\ 0 < serp.envelope[k] /\ serp.envelope[k] < FP
          /\ serp.out[k] # serp.points[k]

====
